---- MODULE Spec2Model ----
(***************************************************************************)
(* Fritter backend: the user, freet and comment collections and the       *)
(* routes over them.  The database is three collections of documents; a   *)
(* session carries the id of the signed-in user.                          *)
(***************************************************************************)
EXTENDS Integers, Sequences, FiniteSets, TLC

VARIABLES
  users,     \* the users collection, in insertion order
  freets,    \* the freets collection
  comments,  \* the comments collection
  session,   \* session -> id of the signed-in user, or NoId
  ids,       \* how many documents of each collection have been created
  res,       \* the last response
  call,      \* the last call or request, and how far it got
  realName,  \* history: user id -> the username held before the last switch to 'Anonymous'
  pending    \* the requests that have read their document and not yet saved it

vars == <<users, freets, comments, session, ids, res, call, realName, pending>>

----------------------------------------------------------------------------
(* Bounds of the model *)

MaxUsers == 2
MaxAuthors == 1
MaxFreets == 1
MaxComments == 1
MaxSessions == 2
MaxAccounts == 1
MaxClients == 1

(* Input alphabets *)

Anonymous == "Anonymous"
Usernames == {"al", "AL", Anonymous}
AuthorNames == {"al", Anonymous}
VoterNames == {"al", "bo"}
FreetVoterNames == {"al", "bo", Anonymous}
Passwords == {"pw"}
PasswordTries == {"pw", "bad"}
Contents == {"hello"}
Reacts == {1, -1, 0}

NoId == 0
UserIds == 1..MaxUsers
AuthorIds == 1..MaxAuthors
FreetIds == 1..MaxFreets
CommentIds == 1..MaxComments
Sessions == 1..MaxSessions
Clients == 1..MaxClients

----------------------------------------------------------------------------
(* JavaScript array primitives, on 1-based sequences with 0-based indices *)

Includes(arr, x) == \E i \in 1..Len(arr) : arr[i] = x

IndexOf(arr, x) ==
  IF Includes(arr, x)
    THEN (CHOOSE i \in 1..Len(arr) : arr[i] = x /\ \A j \in 1..(i - 1) : arr[j] # x) - 1
    ELSE -1

\* arr.splice(ix, 1): a negative ix counts from the end of the array
Splice(arr, ix) ==
  LET n == Len(arr)
      start == IF ix < 0 THEN (IF n + ix < 0 THEN 0 ELSE n + ix)
                         ELSE (IF ix > n THEN n ELSE ix)
  IN  IF start >= n THEN arr
      ELSE [k \in 1..(n - 1) |-> IF k <= start THEN arr[k] ELSE arr[k + 1]]

Push(arr, x) == Append(arr, x)

----------------------------------------------------------------------------
(* Mongo lookups: findOne returns the first matching document or null *)

Null == [_id |-> NoId]

FindOne(coll, id) ==
  IF \E i \in 1..Len(coll) : coll[i]._id = id
    THEN coll[CHOOSE i \in 1..Len(coll) : coll[i]._id = id]
    ELSE Null

Replace(coll, doc) == [i \in 1..Len(coll) |-> IF coll[i]._id = doc._id THEN doc ELSE coll[i]]

findOneByUserId(userId) == FindOne(users, userId)

NoCall == [op |-> "none", sid |-> NoId, uid |-> NoId, name |-> "", doc |-> NoId,
           react |-> 0, branch |-> "none", stage |-> "none"]

NoRes == [status |-> 0, error |-> "none"]

----------------------------------------------------------------------------
(* UserCollection *)

NewUser(id, username, password) ==
  [_id |-> id, username |-> username, password |-> password,
   following |-> <<>>, anonName |-> Anonymous]

\* the history variable across one assignment of a user's username
HeldBefore(before, after, held) ==
  IF after.username = Anonymous /\ before.username # Anonymous THEN before.username ELSE held

updateAnonDoc(user) ==
  IF user.anonName = Anonymous
    THEN [user EXCEPT !.anonName = user.username, !.username = Anonymous]
    ELSE [user EXCEPT !.username = user.anonName, !.anonName = Anonymous]

----------------------------------------------------------------------------
(* FreetCollection *)

\* a freet that is never marked anonymous
NewFreetNamed(id, authorId, content) ==
  [_id |-> id, authorId |-> authorId, content |-> content, anonymous |-> FALSE,
   comments |-> <<>>, upvoters |-> <<>>, upvotes |-> 0]

NewFreet(id, authorId, content) ==
  LET user == findOneByUserId(authorId)
  IN  [_id |-> id, authorId |-> authorId, content |-> content,
       anonymous |-> (user.username = Anonymous),
       comments |-> <<>>, upvoters |-> <<>>, upvotes |-> 0]

\* a toggle that forgets to take the user out of the list
upvotePostKeepsVoter(freet, username) ==
  IF Includes(freet.upvoters, username)
    THEN [freet EXCEPT !.upvotes = @ - 1]
    ELSE [freet EXCEPT !.upvotes = @ + 1, !.upvoters = Push(@, username)]

upvotePostDoc(freet, username) ==
  IF Includes(freet.upvoters, username)
    THEN [freet EXCEPT !.upvotes = @ - 1,
                       !.upvoters = Splice(@, IndexOf(freet.upvoters, username))]
    ELSE [freet EXCEPT !.upvotes = @ + 1,
                       !.upvoters = Push(@, username)]

----------------------------------------------------------------------------
(* CommentCollection *)

NewComment(id, authorId, content, freetId) ==
  LET user == findOneByUserId(authorId)
  IN  [_id |-> id, authorId |-> authorId, freetId |-> freetId, content |-> content,
       anonymous |-> (user.username = Anonymous),
       upvoters |-> <<>>, downvoters |-> <<>>, upvotes |-> 0]

\* which branch of upvoteComment a call takes
ReactBranch(comment, username, react) ==
  IF Includes(comment.upvoters, username)
    THEN (IF react = 1 THEN "undoUp" ELSE IF react = -1 THEN "upToDown" ELSE "none")
  ELSE IF Includes(comment.downvoters, username)
    THEN (IF react = 1 THEN "downToUp" ELSE IF react = -1 THEN "undoDown" ELSE "none")
  ELSE (IF react = 1 THEN "newUp" ELSE IF react = -1 THEN "newDown" ELSE "none")

\* an override that moves the counter by one instead of two
upvoteCommentOverrideByOne(comment, username, react) ==
  IF Includes(comment.upvoters, username)
    THEN IF react = 1
           THEN [comment EXCEPT !.upvotes = @ - 1,
                                !.upvoters = Splice(@, IndexOf(comment.upvoters, username))]
         ELSE IF react = -1
           THEN [comment EXCEPT !.upvotes = @ - 1,
                                !.downvoters = Push(@, username),
                                !.upvoters = Splice(@, IndexOf(comment.upvoters, username))]
         ELSE comment
  ELSE IF Includes(comment.downvoters, username)
    THEN IF react = 1
           THEN [comment EXCEPT !.upvotes = @ + 1,
                                !.upvoters = Push(@, username),
                                !.downvoters = Splice(@, IndexOf(comment.downvoters, username))]
         ELSE IF react = -1
           THEN [comment EXCEPT !.upvotes = @ + 1,
                                !.downvoters = Splice(@, IndexOf(comment.upvoters, username))]
         ELSE comment
  ELSE IF react = 1
         THEN [comment EXCEPT !.upvotes = @ + 1, !.upvoters = Push(@, username)]
       ELSE IF react = -1
         THEN [comment EXCEPT !.upvotes = @ - 1, !.downvoters = Push(@, username)]
       ELSE comment

\* an undo of a downvote that removes the entry and leaves the counter alone
upvoteCommentUndoKeepsCount(comment, username, react) ==
  IF Includes(comment.upvoters, username)
    THEN IF react = 1
           THEN [comment EXCEPT !.upvotes = @ - 1,
                                !.upvoters = Splice(@, IndexOf(comment.upvoters, username))]
         ELSE IF react = -1
           THEN [comment EXCEPT !.upvotes = @ - 2,
                                !.downvoters = Push(@, username),
                                !.upvoters = Splice(@, IndexOf(comment.upvoters, username))]
         ELSE comment
  ELSE IF Includes(comment.downvoters, username)
    THEN IF react = 1
           THEN [comment EXCEPT !.upvotes = @ + 2,
                                !.upvoters = Push(@, username),
                                !.downvoters = Splice(@, IndexOf(comment.downvoters, username))]
         ELSE IF react = -1
           THEN [comment EXCEPT !.downvoters = Splice(@, IndexOf(comment.upvoters, username))]
         ELSE comment
  ELSE IF react = 1
         THEN [comment EXCEPT !.upvotes = @ + 1, !.upvoters = Push(@, username)]
       ELSE IF react = -1
         THEN [comment EXCEPT !.upvotes = @ - 1, !.downvoters = Push(@, username)]
       ELSE comment

\* a change of mind from up to down that leaves the user among the upvoters
upvoteCommentKeepsUpvoter(comment, username, react) ==
  IF Includes(comment.upvoters, username)
    THEN IF react = 1
           THEN [comment EXCEPT !.upvotes = @ - 1,
                                !.upvoters = Splice(@, IndexOf(comment.upvoters, username))]
         ELSE IF react = -1
           THEN [comment EXCEPT !.upvotes = @ - 2,
                                !.downvoters = Push(@, username)]
         ELSE comment
  ELSE IF Includes(comment.downvoters, username)
    THEN IF react = 1
           THEN [comment EXCEPT !.upvotes = @ + 2,
                                !.upvoters = Push(@, username),
                                !.downvoters = Splice(@, IndexOf(comment.downvoters, username))]
         ELSE IF react = -1
           THEN [comment EXCEPT !.upvotes = @ + 1,
                                !.downvoters = Splice(@, IndexOf(comment.upvoters, username))]
         ELSE comment
  ELSE IF react = 1
         THEN [comment EXCEPT !.upvotes = @ + 1, !.upvoters = Push(@, username)]
       ELSE IF react = -1
         THEN [comment EXCEPT !.upvotes = @ - 1, !.downvoters = Push(@, username)]
       ELSE comment

upvoteCommentDoc(comment, username, react) ==
  IF Includes(comment.upvoters, username)
    THEN IF react = 1
           THEN [comment EXCEPT !.upvotes = @ - 1,
                                !.upvoters = Splice(@, IndexOf(comment.upvoters, username))]
         ELSE IF react = -1
           THEN [comment EXCEPT !.upvotes = @ - 2,
                                !.downvoters = Push(@, username),
                                !.upvoters = Splice(@, IndexOf(comment.upvoters, username))]
         ELSE comment
  ELSE IF Includes(comment.downvoters, username)
    THEN IF react = 1
           THEN [comment EXCEPT !.upvotes = @ + 2,
                                !.upvoters = Push(@, username),
                                !.downvoters = Splice(@, IndexOf(comment.downvoters, username))]
         ELSE IF react = -1
           THEN [comment EXCEPT !.upvotes = @ + 1,
                                !.downvoters = Splice(@, IndexOf(comment.upvoters, username))]
         ELSE comment
  ELSE IF react = 1
         THEN [comment EXCEPT !.upvotes = @ + 1, !.upvoters = Push(@, username)]
       ELSE IF react = -1
         THEN [comment EXCEPT !.upvotes = @ - 1, !.downvoters = Push(@, username)]
       ELSE comment

----------------------------------------------------------------------------
(* The collections called directly: any caller, any username *)

Init ==
  /\ users = <<>>
  /\ freets = <<>>
  /\ comments = <<>>
  /\ session = [s \in Sessions |-> NoId]
  /\ ids = [user |-> 0, freet |-> 0, comment |-> 0]
  /\ res = NoRes
  /\ call = NoCall
  /\ realName = [u \in UserIds |-> ""]
  /\ pending = {}

UserAddOne(username, password) ==
  /\ ids.user < MaxAuthors
  /\ users' = Push(users, NewUser(ids.user + 1, username, password))
  /\ ids' = [ids EXCEPT !.user = @ + 1]
  /\ realName' = [realName EXCEPT ![ids.user + 1] = username]
  /\ call' = [NoCall EXCEPT !.op = "UserAddOne", !.name = username, !.doc = ids.user + 1]
  /\ UNCHANGED <<freets, comments, session, res, pending>>

updateAnon(userId) ==
  /\ findOneByUserId(userId) # Null
  /\ users' = Replace(users, updateAnonDoc(findOneByUserId(userId)))
  /\ realName' = [realName EXCEPT ![userId] = HeldBefore(findOneByUserId(userId), updateAnonDoc(findOneByUserId(userId)), @)]
  /\ call' = [NoCall EXCEPT !.op = "updateAnon", !.uid = userId]
  /\ UNCHANGED <<freets, comments, session, ids, res, pending>>

FreetAddOne(authorId, content) ==
  /\ ids.freet < MaxFreets
  /\ findOneByUserId(authorId) # Null
  /\ freets' = Push(freets, NewFreet(ids.freet + 1, authorId, content))
  /\ ids' = [ids EXCEPT !.freet = @ + 1]
  /\ call' = [NoCall EXCEPT !.op = "FreetAddOne", !.uid = authorId, !.doc = ids.freet + 1]
  /\ UNCHANGED <<users, comments, session, res, realName, pending>>

CommentAddOne(authorId, content, freetId) ==
  /\ ids.comment < MaxComments
  /\ findOneByUserId(authorId) # Null
  /\ FindOne(freets, freetId) # Null
  /\ LET comment == NewComment(ids.comment + 1, authorId, content, freetId)
         freet == FindOne(freets, freetId)
     IN  /\ freets' = Replace(freets, [freet EXCEPT !.comments = Push(@, comment)])
         /\ comments' = Push(comments, comment)
  /\ ids' = [ids EXCEPT !.comment = @ + 1]
  /\ call' = [NoCall EXCEPT !.op = "CommentAddOne", !.uid = authorId, !.doc = ids.comment + 1]
  /\ UNCHANGED <<users, session, res, realName, pending>>

upvotePost(username, freetId) ==
  /\ LET freet == FindOne(freets, freetId)
     IN  /\ freets' = IF freet # Null THEN Replace(freets, upvotePostDoc(freet, username))
                                      ELSE freets
         /\ call' = [NoCall EXCEPT !.op = "upvotePost", !.name = username, !.doc = freetId,
                       !.branch = IF freet = Null THEN "none"
                                  ELSE IF Includes(freet.upvoters, username) THEN "undoUp"
                                  ELSE "newUp"]
  /\ UNCHANGED <<users, comments, session, ids, res, realName, pending>>

upvoteComment(username, commentId, react) ==
  /\ LET comment == FindOne(comments, commentId)
     IN  /\ comments' = IF comment # Null
                          THEN Replace(comments, upvoteCommentDoc(comment, username, react))
                          ELSE comments
         /\ call' = [NoCall EXCEPT !.op = "upvoteComment", !.name = username,
                       !.doc = commentId, !.react = react,
                       !.branch = IF comment = Null THEN "none"
                                  ELSE ReactBranch(comment, username, react)]
  /\ UNCHANGED <<users, freets, session, ids, res, realName, pending>>

Next ==
  \/ \E n \in AuthorNames, p \in Passwords : UserAddOne(n, p)
  \/ \E u \in AuthorIds, c \in Contents : FreetAddOne(u, c)
  \/ \E u \in AuthorIds, c \in Contents, f \in FreetIds : CommentAddOne(u, c, f)
  \/ \E n \in VoterNames, c \in CommentIds, r \in Reacts : upvoteComment(n, c, r)

\* comments and the reactions to them
Spec == Init /\ [][Next]_vars

NextFreet ==
  \/ \E n \in AuthorNames, p \in Passwords : UserAddOne(n, p)
  \/ \E u \in AuthorIds, c \in Contents : FreetAddOne(u, c)
  \/ \E n \in FreetVoterNames, f \in FreetIds : upvotePost(n, f)
  \/ \E u \in AuthorIds : updateAnon(u)

\* freets, the upvotes on them and their authors' anonymous mode
SpecFreet == Init /\ [][NextFreet]_vars

----------------------------------------------------------------------------
(* Properties of the reaction state machines *)

Count(arr, x) == Cardinality({i \in 1..Len(arr) : arr[i] = x})

\* every user other than u is in the same lists before and after
OthersKept(pre, post, u) ==
  \A v \in VoterNames \ {u} :
    /\ Includes(post.upvoters, v) <=> Includes(pre.upvoters, v)
    /\ Includes(post.downvoters, v) <=> Includes(pre.downvoters, v)

\* the step just taken is upvoteComment on the stored comment c
ReactStep(c) == call'.op = "upvoteComment" /\ call'.doc = c /\ FindOne(comments, c) # Null

\* C1: repeating a reaction undoes it: a downvoter reacting -1 (an upvoter
\* reacting 1) leaves both lists, the counter moves by +1 (-1), and every
\* other user's membership in the two lists is unchanged.
C1_RepeatUndoes ==
  [][\A c \in CommentIds :
       ReactStep(c) =>
         LET pre == FindOne(comments, c)
             post == FindOne(comments', c)
             u == call'.name
         IN  /\ (call'.react = -1 /\ Includes(pre.downvoters, u)) =>
                   /\ ~Includes(post.downvoters, u)
                   /\ ~Includes(post.upvoters, u)
                   /\ post.upvotes = pre.upvotes + 1
                   /\ OthersKept(pre, post, u)
             /\ (call'.react = 1 /\ Includes(pre.upvoters, u)) =>
                   /\ ~Includes(post.upvoters, u)
                   /\ ~Includes(post.downvoters, u)
                   /\ post.upvotes = pre.upvotes - 1
                   /\ OthersKept(pre, post, u)]_vars

\* C2: overriding a reaction: an upvoter reacting -1 moves to downvoters
\* (once) and the counter drops by 2; a downvoter reacting 1 moves to
\* upvoters and the counter rises by 2; a neutral user reacting 1 or -1 joins
\* the matching list and the counter moves by 1; nobody else's membership
\* changes.
C2_Override ==
  [][\A c \in CommentIds :
       ReactStep(c) =>
         LET pre == FindOne(comments, c)
             post == FindOne(comments', c)
             u == call'.name
             wasUp == Includes(pre.upvoters, u)
             wasDown == Includes(pre.downvoters, u)
         IN  /\ (wasUp /\ call'.react = -1) =>
                   /\ ~Includes(post.upvoters, u)
                   /\ Count(post.downvoters, u) = 1
                   /\ post.upvotes = pre.upvotes - 2
                   /\ OthersKept(pre, post, u)
             /\ (wasDown /\ call'.react = 1) =>
                   /\ ~Includes(post.downvoters, u)
                   /\ Count(post.upvoters, u) = 1
                   /\ post.upvotes = pre.upvotes + 2
                   /\ OthersKept(pre, post, u)
             /\ (~wasUp /\ ~wasDown /\ call'.react = 1) =>
                   /\ Count(post.upvoters, u) = 1
                   /\ ~Includes(post.downvoters, u)
                   /\ post.upvotes = pre.upvotes + 1
                   /\ OthersKept(pre, post, u)
             /\ (~wasUp /\ ~wasDown /\ call'.react = -1) =>
                   /\ Count(post.downvoters, u) = 1
                   /\ ~Includes(post.upvoters, u)
                   /\ post.upvotes = pre.upvotes - 1
                   /\ OthersKept(pre, post, u)]_vars

\* an override has just happened on a comment another user had reacted to
C2_Witness ==
  /\ call.op = "upvoteComment"
  /\ call.branch \in {"upToDown", "downToUp"}
  /\ LET c == FindOne(comments, call.doc)
     IN  Len(c.upvoters) + Len(c.downvoters) = 2

\* C3: for every stored comment, upvotes = |upvoters| - |downvoters|.
C3_CounterInvariant ==
  \A i \in 1..Len(comments) :
    comments[i].upvotes = Len(comments[i].upvoters) - Len(comments[i].downvoters)

\* a downvote has just been undone while another downvote remains
C3_Witness ==
  /\ call.op = "upvoteComment"
  /\ call.branch = "undoDown"
  /\ Len(FindOne(comments, call.doc).downvoters) = 1

FreetCounterInvariant ==
  \A i \in 1..Len(freets) :
    LET f == freets[i]
    IN  /\ f.upvotes = Len(f.upvoters)
        /\ \A v \in FreetVoterNames : Count(f.upvoters, v) <= 1
        /\ f.upvotes >= 0

\* C4: upvotePost toggles the caller's entry: absent -> added, counter +1;
\* present -> removed, counter -1; and in every state upvotes = |upvoters|,
\* upvoters has no duplicate and upvotes >= 0.
C4_FreetToggle ==
  /\ []FreetCounterInvariant
  /\ [][\A f \in FreetIds :
          (call'.op = "upvotePost" /\ call'.doc = f /\ FindOne(freets, f) # Null) =>
            LET pre == FindOne(freets, f)
                post == FindOne(freets', f)
                u == call'.name
            IN  /\ ~Includes(pre.upvoters, u) =>
                      Includes(post.upvoters, u) /\ post.upvotes = pre.upvotes + 1
                /\ Includes(pre.upvoters, u) =>
                      ~Includes(post.upvoters, u) /\ post.upvotes = pre.upvotes - 1
                /\ \A v \in FreetVoterNames \ {u} :
                      Includes(post.upvoters, v) <=> Includes(pre.upvoters, v)]_vars

\* an upvote has just been withdrawn from a freet other users still upvote
C4_Witness ==
  /\ call.op = "upvotePost"
  /\ call.branch = "undoUp"
  /\ Len(FindOne(freets, call.doc).upvoters) = 2

----------------------------------------------------------------------------
(* Lookups by username: new RegExp(`^${username.trim()}$`, 'i') *)

Lower(name) ==
  CASE name = "AL" -> "al"
    [] name = "al " -> "al "
    [] name = Anonymous -> "anonymous"
    [] OTHER -> name

Trim(name) == CASE name = "al " -> "al" [] OTHER -> name

MatchesUsername(stored, pattern) == Lower(stored) = Lower(Trim(pattern))

\* findOne: the first stored document among the matching ones
FirstMatch(coll, matching) ==
  IF matching # {}
    THEN coll[CHOOSE i \in matching : \A j \in matching : i <= j]
    ELSE Null

findOneByUsername(username) ==
  FirstMatch(users, {i \in 1..Len(users) : MatchesUsername(users[i].username, username)})

findOneByUsernameAndPassword(username, password) ==
  FirstMatch(users, {i \in 1..Len(users) :
                       /\ MatchesUsername(users[i].username, username)
                       /\ users[i].password = password})

\* the schema's required fields: save() rejects a document with one missing
SaveOk(user) == user.username # "" /\ user.password # "" /\ user.anonName # ""

updateOneDoc(user, details) ==
  LET u1 == IF details.password # "" THEN [user EXCEPT !.password = details.password] ELSE user
      u2 == IF details.username # "" THEN [u1 EXCEPT !.username = details.username] ELSE u1
      u3 == IF details.anonOn
              THEN [u2 EXCEPT !.anonName = details.username, !.username = Anonymous]
              ELSE u2
  IN  IF details.anonOff
        THEN [u3 EXCEPT !.username = details.anonName, !.anonName = Anonymous]
        ELSE u3

\* the history variable across updateOne's assignments, in their order
updateOneHeld(user, details, held) ==
  LET u1 == IF details.username # "" THEN [user EXCEPT !.username = details.username] ELSE user
      h1 == HeldBefore(user, u1, held)
      u2 == IF details.anonOn THEN [u1 EXCEPT !.username = Anonymous] ELSE u1
      h2 == HeldBefore(u1, u2, h1)
      u3 == IF details.anonOff THEN [u2 EXCEPT !.username = details.anonName] ELSE u2
  IN  HeldBefore(u2, u3, h2)

signOutDoc(user) ==
  IF user.username = Anonymous
    THEN [user EXCEPT !.username = user.anonName, !.anonName = Anonymous]
    ELSE user

addToFollowListDoc(user, toFollow) ==
  IF ~Includes(user.following, toFollow) /\ findOneByUsername(toFollow) # Null
    THEN [user EXCEPT !.following = Push(@, toFollow)]
    ELSE user

----------------------------------------------------------------------------
(* The validators of the routes' middleware lists *)

NoReq == [username |-> "", password |-> "", freetId |-> NoId, commentId |-> NoId,
          content |-> ""]

MwStatus(mw, s, req) ==
  CASE mw = "isUserLoggedIn" -> IF session[s] # NoId THEN 0 ELSE 403
    [] mw = "isUserLoggedOut" -> IF session[s] = NoId THEN 0 ELSE 403
    [] mw = "isValidUsername" -> IF req.username # "" THEN 0 ELSE 400
    [] mw = "isValidPassword" -> IF req.password # "" THEN 0 ELSE 400
    [] mw = "isUsernameNotAlreadyInUse" ->
         LET u == findOneByUsername(req.username)
         IN  IF u = Null \/ u._id = session[s] THEN 0 ELSE 409
    [] mw = "isAccountExists" ->
         IF findOneByUsernameAndPassword(req.username, req.password) # Null THEN 0 ELSE 401
    [] mw = "isFreetExists" -> IF FindOne(freets, req.freetId) # Null THEN 0 ELSE 404
    [] mw = "isCommentExists" -> IF FindOne(comments, req.commentId) # Null THEN 0 ELSE 404
    [] mw = "isValidFreetContent" -> IF req.content # "" THEN 0 ELSE 400
    [] mw = "isValidCommentContent" -> IF req.content # "" THEN 0 ELSE 400

Rejects(chain, s, req) == \E i \in 1..Len(chain) : MwStatus(chain[i], s, req) # 0

FirstReject(chain, s, req) ==
  CHOOSE i \in 1..Len(chain) :
    /\ MwStatus(chain[i], s, req) # 0
    /\ \A j \in 1..(i - 1) : MwStatus(chain[j], s, req) = 0

\* a validator answers and the handler does not run
Rejected(op, chain, s, req) ==
  LET mw == chain[FirstReject(chain, s, req)]
  IN  /\ res' = [status |-> MwStatus(mw, s, req), error |-> "none"]
      /\ call' = [NoCall EXCEPT !.op = op, !.sid = s, !.uid = session[s], !.stage = mw]
      /\ UNCHANGED <<users, freets, comments, session, ids, realName, pending>>

\* the handler throws before it saves or answers anything
Throws(op, s, req, error) ==
  /\ res' = [status |-> 0, error |-> error]
  /\ call' = [NoCall EXCEPT !.op = op, !.sid = s, !.uid = session[s], !.stage = "handler"]
  /\ UNCHANGED <<users, freets, comments, session, ids, realName, pending>>

Handled(op, s, req, status) ==
  /\ res' = [status |-> status, error |-> "none"]
  /\ call' = [NoCall EXCEPT !.op = op, !.sid = s, !.uid = session[s], !.stage = "handler"]

----------------------------------------------------------------------------
(* The user router *)

PostSessionChain ==
  <<"isUserLoggedOut", "isValidUsername", "isValidPassword", "isAccountExists">>

\* POST /api/users/session
PostSession(s, username, password) ==
  LET req == [NoReq EXCEPT !.username = username, !.password = password]
      user == findOneByUsernameAndPassword(username, password)
  IN  IF Rejects(PostSessionChain, s, req) THEN Rejected("PostSession", PostSessionChain, s, req)
      ELSE IF user = Null THEN Throws("PostSession", s, req, "TypeError")
      ELSE /\ session' = [session EXCEPT ![s] = user._id]
           /\ Handled("PostSession", s, req, 201)
           /\ UNCHANGED <<users, freets, comments, ids, realName, pending>>

\* a sign-out route without its login check
DeleteSessionUnchecked == <<>>

DeleteSessionChain == <<"isUserLoggedIn">>

\* DELETE /api/users/session
DeleteSession(s) ==
  LET user == findOneByUserId(session[s])
  IN  IF Rejects(DeleteSessionChain, s, NoReq)
        THEN Rejected("DeleteSession", DeleteSessionChain, s, NoReq)
      ELSE IF user = Null THEN Throws("DeleteSession", s, NoReq, "TypeError")
      ELSE /\ users' = Replace(users, signOutDoc(user))
           /\ session' = [session EXCEPT ![s] = NoId]
           /\ Handled("DeleteSession", s, NoReq, 200)
           /\ UNCHANGED <<freets, comments, ids, realName, pending>>

PostUsersChain ==
  <<"isUserLoggedOut", "isValidUsername", "isUsernameNotAlreadyInUse", "isValidPassword">>

\* POST /api/users
PostUsers(s, username, password) ==
  LET req == [NoReq EXCEPT !.username = username, !.password = password]
  IN  IF Rejects(PostUsersChain, s, req) THEN Rejected("PostUsers", PostUsersChain, s, req)
      ELSE /\ ids.user < MaxUsers
           /\ users' = Push(users, NewUser(ids.user + 1, username, password))
           /\ ids' = [ids EXCEPT !.user = @ + 1]
           /\ realName' = [realName EXCEPT ![ids.user + 1] = username]
           /\ session' = [session EXCEPT ![s] = ids.user + 1]
           /\ Handled("PostUsers", s, req, 201)
           /\ UNCHANGED <<freets, comments, pending>>

PutUsersChain ==
  <<"isUserLoggedIn", "isValidUsername", "isUsernameNotAlreadyInUse", "isValidPassword">>

\* PUT /api/users
PutUsers(s, details) ==
  LET req == [NoReq EXCEPT !.username = details.username, !.password = details.password]
      user == findOneByUserId(session[s])
  IN  IF Rejects(PutUsersChain, s, req) THEN Rejected("PutUsers", PutUsersChain, s, req)
      ELSE IF user = Null THEN Throws("PutUsers", s, req, "TypeError")
      ELSE IF ~SaveOk(updateOneDoc(user, details))
        THEN Throws("PutUsers", s, req, "ValidationError")
      ELSE /\ users' = Replace(users, updateOneDoc(user, details))
           /\ realName' = [realName EXCEPT ![user._id] = updateOneHeld(user, details, @)]
           /\ Handled("PutUsers", s, req, 200)
           /\ UNCHANGED <<freets, comments, session, ids, pending>>

DeleteAnonymousChain == <<"isUserLoggedIn">>

\* DELETE /api/users/anonymous
DeleteAnonymous(s) ==
  LET user == findOneByUserId(session[s])
  IN  IF Rejects(DeleteAnonymousChain, s, NoReq)
        THEN Rejected("DeleteAnonymous", DeleteAnonymousChain, s, NoReq)
      ELSE IF user = Null THEN Throws("DeleteAnonymous", s, NoReq, "TypeError")
      ELSE /\ users' = Replace(users, updateAnonDoc(user))
           /\ realName' = [realName EXCEPT ![user._id] = HeldBefore(user, updateAnonDoc(user), @)]
           /\ Handled("DeleteAnonymous", s, NoReq, 200)
           /\ UNCHANGED <<freets, comments, session, ids, pending>>

PutFollowersChain == <<"isUserLoggedIn", "isValidUsername">>

\* PUT /api/users/followers: the validator reads body.username, the handler body.user
PutFollowers(s, username, toFollow) ==
  LET req == [NoReq EXCEPT !.username = username]
      user == findOneByUserId(session[s])
  IN  IF Rejects(PutFollowersChain, s, req)
        THEN Rejected("PutFollowers", PutFollowersChain, s, req)
      ELSE IF user = Null THEN Throws("PutFollowers", s, req, "TypeError")
      ELSE /\ users' = Replace(users, addToFollowListDoc(user, toFollow))
           /\ res' = [status |-> 200, error |-> "none"]
           /\ call' = [NoCall EXCEPT !.op = "PutFollowers", !.sid = s, !.uid = session[s],
                                     !.name = toFollow, !.stage = "handler",
                                     !.branch = IF findOneByUsername(toFollow) = Null THEN "unknown"
                                                ELSE IF Includes(user.following, toFollow) THEN "already"
                                                ELSE "added"]
           /\ UNCHANGED <<freets, comments, session, ids, realName, pending>>

----------------------------------------------------------------------------
(* The freet and comment routers *)

PostFreetsChain == <<"isUserLoggedIn", "isValidFreetContent">>

\* POST /api/freets
PostFreets(s, content) ==
  LET req == [NoReq EXCEPT !.content = content]
  IN  IF Rejects(PostFreetsChain, s, req) THEN Rejected("PostFreets", PostFreetsChain, s, req)
      ELSE IF findOneByUserId(session[s]) = Null THEN Throws("PostFreets", s, req, "TypeError")
      ELSE /\ ids.freet < MaxFreets
           /\ freets' = Push(freets, NewFreet(ids.freet + 1, session[s], content))
           /\ ids' = [ids EXCEPT !.freet = @ + 1]
           /\ Handled("PostFreets", s, req, 201)
           /\ UNCHANGED <<users, comments, session, realName, pending>>

PostCommentsChain == <<"isUserLoggedIn", "isValidFreetContent", "isValidCommentContent">>

\* POST /api/comments/:freetId
PostComments(s, freetId, content) ==
  LET req == [NoReq EXCEPT !.content = content, !.freetId = freetId]
      freet == FindOne(freets, freetId)
      comment == NewComment(ids.comment + 1, session[s], content, freetId)
  IN  IF Rejects(PostCommentsChain, s, req)
        THEN Rejected("PostComments", PostCommentsChain, s, req)
      ELSE IF findOneByUserId(session[s]) = Null \/ freet = Null
        THEN Throws("PostComments", s, req, "TypeError")
      ELSE /\ ids.comment < MaxComments
           /\ freets' = Replace(freets, [freet EXCEPT !.comments = Push(@, comment)])
           /\ comments' = Push(comments, comment)
           /\ ids' = [ids EXCEPT !.comment = @ + 1]
           /\ Handled("PostComments", s, req, 201)
           /\ UNCHANGED <<users, session, realName, pending>>

\* what findOneByUserId('') can do: reject the cast, or find nobody
EmptyIdErrors == {"CastError", "TypeError"}

PutFreetsReactChain == <<"isFreetExists">>

\* PUT /api/freets/react/:freetId
PutFreetsReact(s, freetId) ==
  LET req == [NoReq EXCEPT !.freetId = freetId]
      user == findOneByUserId(session[s])
      freet == FindOne(freets, freetId)
  IN  IF Rejects(PutFreetsReactChain, s, req)
        THEN Rejected("PutFreetsReact", PutFreetsReactChain, s, req)
      ELSE IF session[s] = NoId
        THEN \E e \in EmptyIdErrors : Throws("PutFreetsReact", s, req, e)
      ELSE IF user = Null THEN Throws("PutFreetsReact", s, req, "TypeError")
      ELSE /\ freets' = IF freet # Null THEN Replace(freets, upvotePostDoc(freet, user.username))
                                        ELSE freets
           /\ Handled("PutFreetsReact", s, req, 200)
           /\ UNCHANGED <<users, comments, session, ids, realName, pending>>

PutCommentsReactChain == <<"isCommentExists">>

\* PUT /api/comments/react/:commentId/:react
PutCommentsReact(s, commentId, react) ==
  LET req == [NoReq EXCEPT !.commentId = commentId]
      user == findOneByUserId(session[s])
      comment == FindOne(comments, commentId)
  IN  IF Rejects(PutCommentsReactChain, s, req)
        THEN Rejected("PutCommentsReact", PutCommentsReactChain, s, req)
      ELSE IF session[s] = NoId
        THEN \E e \in EmptyIdErrors : Throws("PutCommentsReact", s, req, e)
      ELSE IF user = Null THEN Throws("PutCommentsReact", s, req, "TypeError")
      ELSE /\ comments' = IF comment # Null
                            THEN Replace(comments, upvoteCommentDoc(comment, user.username, react))
                            ELSE comments
           /\ Handled("PutCommentsReact", s, req, 200)
           /\ UNCHANGED <<users, freets, session, ids, realName, pending>>

----------------------------------------------------------------------------
(* The requests a client can send *)

UsernameTries == Usernames \cup {""}
NameTries == {"al", "AL", ""}
PasswordInputs == Passwords \cup {""}
ContentTries == Contents \cup {""}
FollowNames == {"al", "AL", "al ", "zed"}

\* bodies of PUT /api/users: a plain update, one with anonOn, one with anonOff
Details ==
  [username : UsernameTries, password : PasswordInputs,
   anonOn : {FALSE}, anonOff : {FALSE}, anonName : {""}]
  \cup [username : Usernames, password : Passwords,
        anonOn : {TRUE}, anonOff : {FALSE}, anonName : {""}]
  \cup [username : Usernames, password : Passwords,
        anonOn : {FALSE}, anonOff : {TRUE}, anonName : UsernameTries]

\* a profile update that sets the username and the password
PlainDetails ==
  [username : NameTries, password : PasswordInputs,
   anonOn : {FALSE}, anonOff : {FALSE}, anonName : {""}]

\* sign-up, sign-in, sign-out, freets, comments and the reactions to them
NextReact ==
  \/ \E s \in Sessions, n \in AuthorNames, p \in Passwords : PostUsers(s, n, p)
  \/ \E s \in Sessions, n \in AuthorNames, p \in Passwords : PostSession(s, n, p)
  \/ \E s \in Sessions : DeleteSession(s)
  \/ \E s \in Sessions, c \in ContentTries : PostFreets(s, c)
  \/ \E s \in Sessions, f \in FreetIds, c \in ContentTries : PostComments(s, f, c)
  \/ \E s \in Sessions, f \in FreetIds : PutFreetsReact(s, f)
  \/ \E s \in Sessions, c \in CommentIds, r \in Reacts : PutCommentsReact(s, c, r)

SpecReact == Init /\ [][NextReact]_vars

\* accounts, sessions, profiles and anonymous mode
NextUsers ==
  \/ \E s \in Sessions, n \in NameTries, p \in PasswordInputs : PostUsers(s, n, p)
  \/ \E s \in Sessions, n \in NameTries, p \in PasswordTries : PostSession(s, n, p)
  \/ \E s \in Sessions : DeleteSession(s)
  \/ \E s \in Sessions, d \in PlainDetails : PutUsers(s, d)
  \/ \E s \in Sessions : DeleteAnonymous(s)

SpecUsers == Init /\ [][NextUsers]_vars

\* the same routes, with 'Anonymous' as a username and the anonOn and anonOff
\* fields in the body of a profile update
NextProfile ==
  \/ \E s \in Sessions, n \in UsernameTries, p \in PasswordInputs : PostUsers(s, n, p)
  \/ \E s \in Sessions, n \in UsernameTries, p \in PasswordTries : PostSession(s, n, p)
  \/ \E s \in Sessions : DeleteSession(s)
  \/ \E s \in Sessions, d \in Details : PutUsers(s, d)
  \/ \E s \in Sessions : DeleteAnonymous(s)

SpecProfile == Init /\ [][NextProfile]_vars

\* accounts, sessions and following lists
NextFollow ==
  \/ \E s \in Sessions, n \in {"al", "AL"}, p \in Passwords : PostUsers(s, n, p)
  \/ \E s \in Sessions : DeleteSession(s)
  \/ \E s \in Sessions, n \in {"al", ""}, f \in FollowNames : PutFollowers(s, n, f)

SpecFollow == Init /\ [][NextFollow]_vars

\* accounts, sessions and anonymous mode, for a few clients and accounts
NextSession ==
  \/ \E s \in Clients, n \in UsernameTries, p \in PasswordInputs :
        (Rejects(PostUsersChain, s, [NoReq EXCEPT !.username = n, !.password = p])
           \/ ids.user < MaxAccounts)
        /\ PostUsers(s, n, p)
  \/ \E s \in Clients, n \in UsernameTries, p \in PasswordTries : PostSession(s, n, p)
  \/ \E s \in Clients : DeleteSession(s)
  \/ \E s \in Clients : DeleteAnonymous(s)
  \/ \E s \in Clients, c \in ContentTries : PostFreets(s, c)

SpecSession == Init /\ [][NextSession]_vars

----------------------------------------------------------------------------
(* Properties of the routes *)

\* C5: the react handlers run only for a session with a signed-in user: a
\* request from a session without one never reaches the handler's user lookup
\* and the handler never fails on a missing user.
C5_ReactRequiresLogin ==
  (call.op \in {"PutFreetsReact", "PutCommentsReact"} /\ call.uid = NoId) =>
    (call.stage # "handler" /\ res.error = "none")

DatabaseUnchanged == UNCHANGED <<users, freets, comments, ids>>

LoginRequired ==
  {"DeleteSession", "PutUsers", "DeleteAnonymous", "PutFollowers", "PostFreets", "PostComments"}

Matching(username, password) ==
  {i \in 1..Len(users) :
     MatchesUsername(users[i].username, username) /\ users[i].password = password}

\* one step of the session protocol
SessionStep ==
      /\ call'.op = "PostSession" =>
          \A s \in {call'.sid}, n \in UsernameTries, p \in PasswordTries :
          PostSession(s, n, p) =>
            /\ session[s] # NoId => (res'.status = 403 /\ session' = session)
            /\ (session[s] = NoId /\ n # "" /\ Matching(n, p) = {}) =>
                 (res'.status = 401 /\ session' = session)
            /\ res'.status = 201 =>
                 /\ session[s] = NoId
                 /\ \E i \in Matching(n, p) : session' = [session EXCEPT ![s] = users[i]._id]
      /\ call'.op = "DeleteSession" =>
            /\ session[call'.sid] = NoId => (res'.status = 403 /\ session' = session)
            /\ res'.status = 200 =>
                 (session[call'.sid] # NoId /\ session' = [session EXCEPT ![call'.sid] = NoId])
      /\ (call'.op \in LoginRequired /\ session[call'.sid] = NoId) =>
            (res'.status = 403 /\ call'.stage = "isUserLoggedIn" /\ session' = session
             /\ DatabaseUnchanged)
      /\ \A s \in Sessions :
            (session[s] = NoId /\ session'[s] # NoId) =>
              (call'.op \in {"PostSession", "PostUsers"} /\ call'.sid = s /\ res'.status = 201)

\* C6: sign-in succeeds only from a session without a user (else 403) and only
\* for a username and password matching a stored user (else 401), and then the
\* session holds that user's id; sign-out succeeds only from a session with a
\* user (else 403) and leaves the session without one; a session without a user
\* is refused (403, nothing changed) by every login-required route and gets a
\* user again only by a successful sign-in or sign-up.
C6_SessionProtocol == [][SessionStep]_vars

\* a user has signed out and the same session has just been refused a freet
C6_Witness ==
  /\ call.op = "PostFreets"
  /\ res.status = 403
  /\ session[call.sid] = NoId
  /\ Len(users) >= 1
  /\ Len(freets) >= 1

\* C7: no two stored users have the same username, compared as the lookup
\* compares them (case-insensitively).
C7_UsernamesUnique ==
  \A i, j \in 1..Len(users) :
    i # j => Lower(users[i].username) # Lower(users[j].username)

\* C8: for every stored user, two calls of updateAnon in a row give back the
\* same username and anonName, and one call for a user whose username is not
\* 'Anonymous' puts that username in anonName and makes the username 'Anonymous'.
C8_ToggleInvolution ==
  \A i \in 1..Len(users) :
    LET user == users[i]
        once == updateAnonDoc(user)
        twice == updateAnonDoc(once)
    IN  /\ twice.username = user.username
        /\ twice.anonName = user.anonName
        /\ user.username # Anonymous =>
             (once.anonName = user.username /\ once.username = Anonymous)

\* C9: a completed sign-out of a user whose username was 'Anonymous' leaves
\* the username held before the switch to 'Anonymous' and anonName
\* 'Anonymous'; a sign-out of any other user changes no field of the user.
C9_SignOutLeavesAnonymous ==
  [][(call'.op = "DeleteSession" /\ res'.status = 200) =>
       LET pre == FindOne(users, call'.uid)
           post == FindOne(users', call'.uid)
       IN  /\ pre.username = Anonymous =>
                (post.username = realName[call'.uid] /\ post.anonName = Anonymous)
           /\ pre.username # Anonymous => post = pre]_vars

\* C10: PUT /api/users/followers answers 409 for a user that does not exist
\* and 400 for one already followed, changing nothing; otherwise it answers
\* 200 and the named user is in the following list.
C10_FollowResponses ==
  [][(call'.op = "PutFollowers" /\ call'.stage = "handler") =>
       /\ call'.branch = "unknown" => (res'.status = 409 /\ users' = users)
       /\ call'.branch = "already" => (res'.status = 400 /\ users' = users)
       /\ call'.branch = "added" =>
            (res'.status = 200
             /\ Includes(FindOne(users', call'.uid).following, call'.name))]_vars

----------------------------------------------------------------------------
(* Following lists *)

removeFromFollowListDoc(user, toRemove) ==
  IF Includes(user.following, toRemove)
    THEN [user EXCEPT !.following = Splice(@, IndexOf(@, toRemove))]
    ELSE user

DeleteFollowersChain == <<"isUserLoggedIn">>

\* DELETE /api/users/followers/:followId?
DeleteFollowers(s, followId) ==
  LET user == findOneByUserId(session[s])
  IN  IF Rejects(DeleteFollowersChain, s, NoReq)
        THEN Rejected("DeleteFollowers", DeleteFollowersChain, s, NoReq)
      ELSE IF user = Null THEN Throws("DeleteFollowers", s, NoReq, "TypeError")
      ELSE /\ users' = Replace(users, removeFromFollowListDoc(user, followId))
           /\ res' = [status |-> 200, error |-> "none"]
           /\ call' = [NoCall EXCEPT !.op = "DeleteFollowers", !.sid = s, !.uid = session[s],
                                     !.name = followId, !.stage = "handler",
                                     !.branch = IF Includes(user.following, followId)
                                                  THEN "removed" ELSE "absent"]
           /\ UNCHANGED <<freets, comments, session, ids, realName, pending>>

MemberNames == {"al", "bo"}
FollowIds == {"al", "AL", "bo", "zed"}

\* two accounts that follow and unfollow
NextFollowing ==
  \/ \E s \in Sessions, n \in MemberNames, p \in Passwords : PostUsers(s, n, p)
  \/ \E s \in Sessions, f \in FollowIds : PutFollowers(s, "al", f)
  \/ \E s \in Sessions, f \in FollowIds : DeleteFollowers(s, f)

SpecFollowing == Init /\ [][NextFollowing]_vars

\* the list without its entry at 0-based position ix
Without(arr, ix) == [i \in 1..(Len(arr) - 1) |-> IF i <= ix THEN arr[i] ELSE arr[i + 1]]

\* C11: DELETE /api/users/followers/:followId answers 400 and changes nothing
\* when the signed-in user does not follow followId; otherwise it answers 200
\* and removes exactly that entry, the other entries keeping their order.
C11_UnfollowResponses ==
  [][(call'.op = "DeleteFollowers" /\ call'.stage = "handler") =>
       LET pre == FindOne(users, call'.uid).following
           post == FindOne(users', call'.uid).following
       IN  /\ ~Includes(pre, call'.name) => (res'.status = 400 /\ users' = users)
           /\ Includes(pre, call'.name) =>
                (res'.status = 200 /\ post = Without(pre, IndexOf(pre, call'.name)))]_vars

\* the removal half of C11 alone: a followed name is removed with answer 200
\* and an unfollowed name changes nothing
UnfollowRemovesEntry ==
  [][(call'.op = "DeleteFollowers" /\ call'.stage = "handler") =>
       LET pre == FindOne(users, call'.uid).following
           post == FindOne(users', call'.uid).following
       IN  /\ ~Includes(pre, call'.name) => users' = users
           /\ Includes(pre, call'.name) =>
                (res'.status = 200 /\ post = Without(pre, IndexOf(pre, call'.name)))]_vars

NoUserTwice(following) ==
  \A i, j \in 1..Len(following) :
    i # j => ~MatchesUsername(following[i], following[j])

\* C12: every entry added to a following list names a stored user at that
\* moment, and no list holds the same user twice, two entries being the same
\* user when they match as the existence lookup matches (case-insensitively).
C12_FollowingInvariant ==
  /\ [](\A i \in 1..Len(users) : NoUserTwice(users[i].following))
  /\ [][\A i \in 1..Len(users) :
          (i <= Len(users') /\ Len(users'[i].following) > Len(users[i].following)) =>
            LET added == users'[i].following[Len(users'[i].following)]
            IN  findOneByUsername(added) # Null]_vars

----------------------------------------------------------------------------
(* The following feed *)

\* FreetModel.find({authorId: undefined}): the filter either matches a null
\* authorId, which no stored freet has, or loses its key and matches every freet
UndefinedFilters == {"null", "omitted"}

FindByUndefinedAuthor(filter) == IF filter = "omitted" THEN freets ELSE <<>>

NotAnonymous(freet) == ~freet.anonymous

\* what one round of the loop over user.following pushes: the freets that are
\* not anonymous, one by one, and then the array followFreet itself
PushedForName(name, filter) ==
  LET followFreet == FindByUndefinedAuthor(filter)
      shown == SelectSeq(followFreet, NotAnonymous)
  IN  [i \in 1..Len(shown) |-> [kind |-> "freet", freet |-> shown[i]]]
        \o <<[kind |-> "array", freets |-> followFreet]>>

RECURSIVE FollowingFreetsOf(_, _)
FollowingFreetsOf(following, filter) ==
  IF following = <<>> THEN <<>>
  ELSE PushedForName(Head(following), filter) \o FollowingFreetsOf(Tail(following), filter)

getFollowingFreetsResult(username, filter) ==
  LET user == findOneByUsername(username)
  IN  IF user # Null THEN FollowingFreetsOf(user.following, filter) ELSE <<>>

getFollowingFreets(username, filter) ==
  /\ res' = [status |-> 200, error |-> "none",
             body |-> getFollowingFreetsResult(username, filter)]
  /\ call' = [NoCall EXCEPT !.op = "getFollowingFreets", !.name = username]
  /\ UNCHANGED <<users, freets, comments, session, ids, realName, pending>>

\* accounts that follow each other, post, and read the following feed
NextFollowingFeed ==
  \/ \E s \in Sessions, n \in MemberNames, p \in Passwords : PostUsers(s, n, p)
  \/ \E s \in Sessions, f \in MemberNames : PutFollowers(s, "al", f)
  \/ \E s \in Sessions : DeleteAnonymous(s)
  \/ \E s \in Sessions, c \in Contents : PostFreets(s, c)
  \/ \E n \in MemberNames \cup {"zed"}, filter \in UndefinedFilters : getFollowingFreets(n, filter)

SpecFollowingFeed == Init /\ [][NextFollowingFeed]_vars

\* the ids of the freets a following feed should hold for the user
FollowedFreetIds(user) ==
  {freets[i]._id : i \in {j \in 1..Len(freets) :
       /\ ~freets[j].anonymous
       /\ \E k \in 1..Len(user.following) :
             findOneByUsername(user.following[k])._id = freets[j].authorId}}

\* C13: getFollowingFreets(u) returns exactly the freets that are not
\* anonymous and whose author is named in u's following list, each once and
\* each element a single freet, and the empty list when u does not exist.
C13_FollowingFeed ==
  call.op = "getFollowingFreets" =>
    LET user == findOneByUsername(call.name)
        body == res.body
    IN  /\ user = Null => body = <<>>
        /\ user # Null =>
             /\ \A i \in 1..Len(body) : body[i].kind = "freet"
             /\ \A i, j \in 1..Len(body) :
                  (i # j /\ body[i].kind = "freet" /\ body[j].kind = "freet")
                    => body[i].freet._id # body[j].freet._id
             /\ {body[i].freet._id : i \in {j \in 1..Len(body) : body[j].kind = "freet"}}
                  = FollowedFreetIds(user)

----------------------------------------------------------------------------
(* Dates: new Date(), dateCreated, dateModified *)

\* an instant is a number of clock ticks; a small calendar gives its date
MaxTime == 9
TicksPerDay == 2
DaysPerMonth == 2
MonthsPerYear == 2
Times == 0..MaxTime

getDate(t) == (t \div TicksPerDay) % DaysPerMonth
getMonth(t) == (t \div (TicksPerDay * DaysPerMonth)) % MonthsPerYear
getFullYear(t) == t \div (TicksPerDay * DaysPerMonth * MonthsPerYear)

\* new Date() of a write is later than the date of every earlier write
IsNewDate(date) ==
  /\ \A i \in 1..Len(freets) : freets[i].dateModified < date
  /\ \A i \in 1..Len(comments) : comments[i].dateModified < date

\* new Date() of a read is not earlier than the date of any write
IsNow(date) ==
  /\ \A i \in 1..Len(freets) : freets[i].dateModified <= date
  /\ \A i \in 1..Len(comments) : comments[i].dateModified <= date

MaxPosts == 2
PostIds == 1..MaxPosts

\* as many instants as a run has writes of freets and of comments
WriteTimes == 0..(2 * MaxPosts - 1)

DatedFreet(id, authorId, content, date) ==
  NewFreet(id, authorId, content) @@ [dateCreated |-> date, dateModified |-> date]

DatedComment(id, authorId, content, freetId, date) ==
  NewComment(id, authorId, content, freetId) @@ [dateCreated |-> date, dateModified |-> date]

\* FreetCollection.addOne with its date
FreetAddOneAt(authorId, content, date) ==
  /\ ids.freet < MaxPosts
  /\ IsNewDate(date)
  /\ findOneByUserId(authorId) # Null
  /\ freets' = Push(freets, DatedFreet(ids.freet + 1, authorId, content, date))
  /\ ids' = [ids EXCEPT !.freet = @ + 1]
  /\ call' = [NoCall EXCEPT !.op = "FreetAddOne", !.uid = authorId, !.doc = ids.freet + 1]
  /\ UNCHANGED <<users, comments, session, res, realName, pending>>

\* CommentCollection.addOne with its date
CommentAddOneAt(authorId, content, freetId, date) ==
  /\ ids.comment < MaxPosts
  /\ IsNewDate(date)
  /\ findOneByUserId(authorId) # Null
  /\ FindOne(freets, freetId) # Null
  /\ LET comment == DatedComment(ids.comment + 1, authorId, content, freetId, date)
         freet == FindOne(freets, freetId)
     IN  /\ freets' = Replace(freets, [freet EXCEPT !.comments = Push(@, comment)])
         /\ comments' = Push(comments, comment)
  /\ ids' = [ids EXCEPT !.comment = @ + 1]
  /\ call' = [NoCall EXCEPT !.op = "CommentAddOne", !.uid = authorId, !.doc = ids.comment + 1]
  /\ UNCHANGED <<users, session, res, realName, pending>>

\* insert a document into a list sorted by dateModified, latest first
RECURSIVE InsertByDateModified(_, _)
InsertByDateModified(doc, sorted) ==
  IF sorted = <<>> THEN <<doc>>
  ELSE IF doc.dateModified > Head(sorted).dateModified THEN <<doc>> \o sorted
  ELSE <<Head(sorted)>> \o InsertByDateModified(doc, Tail(sorted))

\* find({}).sort({dateModified: -1})
RECURSIVE SortByDateModified(_)
SortByDateModified(coll) ==
  IF coll = <<>> THEN <<>>
  ELSE InsertByDateModified(Head(coll), SortByDateModified(Tail(coll)))

----------------------------------------------------------------------------
(* Tags: findAllTag of freets and of comments *)

\* a text is a sequence of characters
NameChars == {"a", "b"}
TagUser == <<"a">>
TagContents ==
  { <<"@", "a", " ", "h">>,      \* "@a h"
    <<"h", " ", "@", "a">>,      \* "h @a"
    <<"@", "a", "b", " ">>,      \* "@ab "
    <<"h", "a">> }               \* "ha"

\* String.prototype.includes
IncludesText(text, part) ==
  \E i \in 0..(Len(text) - Len(part)) :
    \A k \in 1..Len(part) : text[i + k] = part[k]

TagOf(username) == <<"@">> \o username \o <<" ">>

IsTagged(doc, username) == IncludesText(doc.content, TagOf(username))

findAllTagResult(coll, username) ==
  LET Tagged(doc) == IsTagged(doc, username)
  IN  SelectSeq(SortByDateModified(coll), Tagged)

findAllTag(kind, username) ==
  /\ res' = [status |-> 200, error |-> "none",
             body |-> findAllTagResult(IF kind = "freet" THEN freets ELSE comments, username)]
  /\ call' = [NoCall EXCEPT !.op = "findAllTag", !.branch = kind]
  /\ UNCHANGED <<users, freets, comments, session, ids, realName, pending>>

\* one author, tagged freets and comments, and the tag search for "a"
NextTags ==
  \/ UserAddOne("al", "pw")
  \/ \E c \in TagContents, t \in WriteTimes : FreetAddOneAt(1, c, t)
  \/ \E c \in TagContents, f \in PostIds, t \in WriteTimes : CommentAddOneAt(1, c, f, t)
  \/ \E kind \in {"freet", "comment"} : findAllTag(kind, TagUser)

SpecTags == Init /\ [][NextTags]_vars

\* the text holds @username followed by the end of the text or by a character
\* that cannot continue a username
Mentions(text, username) ==
  \E i \in 0..(Len(text) - Len(username) - 1) :
    /\ text[i + 1] = "@"
    /\ \A k \in 1..Len(username) : text[i + 1 + k] = username[k]
    /\ (i + 1 + Len(username) = Len(text) \/ text[i + 2 + Len(username)] \notin NameChars)

IsSortedByDateModified(list) ==
  \A i, j \in 1..Len(list) : i < j => list[i].dateModified >= list[j].dateModified

\* C14: findAllTag(u) of freets and of comments returns, latest dateModified
\* first, every stored item whose content mentions @u, also at the very end of
\* the content, and no item that only mentions a longer username starting with u.
C14_FindAllTag ==
  call.op = "findAllTag" =>
    LET coll == IF call.branch = "freet" THEN freets ELSE comments
        body == res.body
    IN  /\ IsSortedByDateModified(body)
        /\ {body[i]._id : i \in 1..Len(body)}
             = {coll[i]._id : i \in {j \in 1..Len(coll) : Mentions(coll[j].content, TagUser)}}
        /\ \A i, j \in 1..Len(body) : i # j => body[i]._id # body[j]._id

----------------------------------------------------------------------------
(* On this day: findAllOnThisDate *)

\* the freets of the author made on the date's day and month, of any year
findAllOnThisDateAnyYear(username, date) ==
  LET author == findOneByUsername(username)
      ByAuthor(freet) == freet.authorId = author._id
      OnThisDay(freet) ==
        /\ getDate(freet.dateCreated) = getDate(date)
        /\ getMonth(freet.dateCreated) = getMonth(date)
  IN  SelectSeq(SelectSeq(freets, ByAuthor), OnThisDay)

findAllOnThisDateResult(username, date) ==
  LET author == findOneByUsername(username)
      ByAuthor(freet) == freet.authorId = author._id
      OnThisDay(freet) ==
        /\ getDate(freet.dateCreated) = getDate(date)
        /\ getMonth(freet.dateCreated) = getMonth(date)
        /\ getFullYear(freet.dateCreated) # getFullYear(date)
  IN  SelectSeq(SelectSeq(freets, ByAuthor), OnThisDay)

findAllOnThisDate(username, date) ==
  /\ IsNow(date)
  /\ IF findOneByUsername(username) = Null
       THEN res' = [status |-> 0, error |-> "TypeError"]
       ELSE res' = [status |-> 200, error |-> "none",
                    body |-> findAllOnThisDateResult(username, date)]
  /\ call' = [date |-> date] @@
               [NoCall EXCEPT !.op = "findAllOnThisDate", !.name = username]
  /\ UNCHANGED <<users, freets, comments, session, ids, realName, pending>>

\* two authors who post over more than a year and look back
NextOnThisDay ==
  \/ \E s \in Sessions, n \in MemberNames, p \in Passwords : PostUsers(s, n, p)
  \/ \E a \in UserIds, c \in Contents, t \in Times : FreetAddOneAt(a, c, t)
  \/ \E n \in MemberNames, t \in Times : findAllOnThisDate(n, t)

SpecOnThisDay == Init /\ [][NextOnThisDay]_vars

\* C15: findAllOnThisDate(author) returns exactly the author's freets created
\* on the current day of the month and month in an earlier year, each once;
\* never a freet created in the current year nor a freet of another author.
C15_OnThisDate ==
  (call.op = "findAllOnThisDate" /\ res.error = "none") =>
    LET author == findOneByUsername(call.name)
        body == res.body
    IN  /\ {body[i]._id : i \in 1..Len(body)}
             = {freets[i]._id : i \in {j \in 1..Len(freets) :
                   /\ freets[j].authorId = author._id
                   /\ getDate(freets[j].dateCreated) = getDate(call.date)
                   /\ getMonth(freets[j].dateCreated) = getMonth(call.date)
                   /\ getFullYear(freets[j].dateCreated) < getFullYear(call.date)}}
        /\ \A i, j \in 1..Len(body) : i # j => body[i]._id # body[j]._id

\* a look back that returns last year's freet of the author while a freet of
\* another author, also made on this day last year, is stored
C15_Witness ==
  /\ call.op = "findAllOnThisDate"
  /\ res.error = "none"
  /\ Len(res.body) = 1
  /\ \E i \in 1..Len(freets) :
       /\ freets[i].authorId # findOneByUsername(call.name)._id
       /\ getDate(freets[i].dateCreated) = getDate(call.date)
       /\ getMonth(freets[i].dateCreated) = getMonth(call.date)
       /\ getFullYear(freets[i].dateCreated) < getFullYear(call.date)

----------------------------------------------------------------------------
(* The timeline: GET /api/freets and FreetCollection.updateOne *)

freetUpdateOneDoc(freet, content, date) ==
  [freet EXCEPT !.content = content, !.dateModified = date]

\* FreetCollection.updateOne
FreetUpdateOne(freetId, content, date) ==
  /\ IsNewDate(date)
  /\ FindOne(freets, freetId) # Null
  /\ freets' = Replace(freets, freetUpdateOneDoc(FindOne(freets, freetId), content, date))
  /\ call' = [NoCall EXCEPT !.op = "FreetUpdateOne", !.doc = freetId]
  /\ UNCHANGED <<users, comments, session, ids, res, realName, pending>>

\* a find without the sort: the freets in the order they were stored
findAllUnsorted == freets

\* FreetCollection.findAll
findAllResult == SortByDateModified(freets)

\* FreetCollection.findAllByUsername
findAllByUsernameResult(username) ==
  LET author == findOneByUsername(username)
      ByAuthor(freet) == freet.authorId = author._id
  IN  SelectSeq(freets, ByAuthor)

\* GET /api/freets, author being "" when the query has no author
GetFreets(author) ==
  /\ IF author = ""
       THEN /\ res' = [status |-> 200, error |-> "none", body |-> findAllResult]
            /\ call' = [NoCall EXCEPT !.op = "GetFreets", !.stage = "handler"]
     ELSE IF findOneByUsername(author) = Null
       THEN /\ res' = [status |-> 404, error |-> "none"]
            /\ call' = [NoCall EXCEPT !.op = "GetFreets", !.name = author,
                                      !.stage = "isAuthorExists"]
     ELSE /\ res' = [status |-> 200, error |-> "none",
                     body |-> findAllByUsernameResult(author)]
          /\ call' = [NoCall EXCEPT !.op = "GetFreets", !.name = author, !.stage = "handler"]
  /\ UNCHANGED <<users, freets, comments, session, ids, realName, pending>>

EditContents == {"hello", "edited"}

\* one author who posts, edits and reads the timeline
NextTimeline ==
  \/ UserAddOne("al", "pw")
  \/ \E c \in Contents, t \in WriteTimes : FreetAddOneAt(1, c, t)
  \/ \E f \in PostIds, c \in EditContents, t \in WriteTimes : FreetUpdateOne(f, c, t)
  \/ \E a \in {"", "al", "zed"} : GetFreets(a)

SpecTimeline == Init /\ [][NextTimeline]_vars

----------------------------------------------------------------------------
(* Deleting an account: DELETE /api/users *)

\* UserCollection.deleteOne
deleteOneResult(userId) ==
  LET Others(user) == user._id # userId
  IN  SelectSeq(users, Others)

\* a deleteMany that deletes nothing
deleteManyNothing(authorId) == freets

\* FreetCollection.deleteMany
deleteManyResult(authorId) ==
  LET Others(freet) == freet.authorId # authorId
  IN  SelectSeq(freets, Others)

DeleteUsersChain == <<"isUserLoggedIn">>

\* DELETE /api/users
DeleteUsers(s) ==
  IF Rejects(DeleteUsersChain, s, NoReq)
    THEN Rejected("DeleteUsers", DeleteUsersChain, s, NoReq)
  ELSE /\ users' = deleteOneResult(session[s])
       /\ freets' = deleteManyResult(session[s])
       /\ session' = [session EXCEPT ![s] = NoId]
       /\ Handled("DeleteUsers", s, NoReq, 200)
       /\ UNCHANGED <<comments, ids, realName, pending>>

\* accounts that post and are deleted
NextAccounts ==
  \/ \E s \in Sessions, n \in MemberNames, p \in Passwords : PostUsers(s, n, p)
  \/ \E s \in Sessions, n \in MemberNames, p \in Passwords : PostSession(s, n, p)
  \/ \E a \in UserIds, c \in Contents : FreetAddOneAt(a, c, ids.freet)
  \/ \E s \in Sessions : DeleteUsers(s)

SpecAccounts == Init /\ [][NextAccounts]_vars

\* C17: DELETE /api/users from a signed-in session removes the user's document
\* and every freet of that author and leaves the session without a user; the
\* freets of the other users, and the other users, stay as they were.
C17_DeleteAccount ==
  [][(call'.op = "DeleteUsers" /\ call'.stage = "handler") =>
       LET userId == call'.uid
       IN  /\ res'.status = 200
           /\ FindOne(users', userId) = Null
           /\ \A i \in 1..Len(freets') : freets'[i].authorId # userId
           /\ session'[call'.sid] = NoId
           /\ \A i \in 1..Len(freets) :
                freets[i].authorId # userId =>
                  \E j \in 1..Len(freets') : freets'[j] = freets[i]
           /\ \A i \in 1..Len(freets') : \E j \in 1..Len(freets) : freets[j] = freets'[i]
           /\ \A i \in 1..Len(users) :
                users[i]._id # userId =>
                  \E j \in 1..Len(users') : users'[j] = users[i]]_vars

\* an account with a freet has been deleted and another author's freet is left
C17_Witness ==
  /\ call.op = "DeleteUsers"
  /\ call.stage = "handler"
  /\ FindOne(users, call.uid) = Null
  /\ call.uid \in {1, 2}
  /\ ids.freet = 2
  /\ Len(freets) = 1
  /\ Len(users) = 1

----------------------------------------------------------------------------
(* The anonymous flag of freets and comments *)

\* authors who enter and leave anonymous mode between posts, comments and votes
NextFlags ==
  \/ \E n \in AuthorNames : UserAddOne(n, "pw")
  \/ \E u \in AuthorIds : updateAnon(u)
  \/ \E a \in AuthorIds, c \in Contents : FreetAddOne(a, c)
  \/ \E a \in AuthorIds, c \in Contents, f \in FreetIds : CommentAddOne(a, c, f)
  \/ upvotePost("al", 1)
  \/ \E r \in Reacts : upvoteComment("al", 1, r)

SpecFlags == Init /\ [][NextFlags]_vars

Last(list) == list[Len(list)]

FlagsStep ==
  /\ call'.op = "FreetAddOne" =>
       LET freet == Last(freets')
       IN  /\ freet.anonymous = (findOneByUserId(call'.uid).username = Anonymous)
           /\ freet.upvotes = 0
           /\ freet.upvoters = <<>>
           /\ freet.comments = <<>>
  /\ call'.op = "CommentAddOne" =>
       LET comment == Last(comments')
       IN  /\ comment.anonymous = (findOneByUserId(call'.uid).username = Anonymous)
           /\ comment.upvotes = 0
           /\ comment.upvoters = <<>>
           /\ comment.downvoters = <<>>
  /\ \A i \in 1..Len(freets) :
       \A j \in 1..Len(freets') :
         freets'[j]._id = freets[i]._id => freets'[j].anonymous = freets[i].anonymous
  /\ \A i \in 1..Len(comments) :
       \A j \in 1..Len(comments') :
         comments'[j]._id = comments[i]._id => comments'[j].anonymous = comments[i].anonymous

\* C18: a freet or comment is stored with anonymous = TRUE exactly when its
\* author's username is 'Anonymous' at that moment, with upvotes 0 and empty
\* voter lists (a freet also with no comments), and no later step changes the
\* flag, whatever the author does with anonymous mode.
C18_AnonymousFlag == [][FlagsStep]_vars

\* the author has left anonymous mode; the freet and the comment made in it
\* are still marked anonymous
C18_Witness ==
  /\ call.op = "updateAnon"
  /\ \E i \in 1..Len(freets) :
       freets[i].anonymous /\ findOneByUserId(freets[i].authorId).username # Anonymous
  /\ \E i \in 1..Len(comments) :
       comments[i].anonymous /\ findOneByUserId(comments[i].authorId).username # Anonymous

----------------------------------------------------------------------------
(* The client: FreetsPage.vue *)

\* the lists of the store hold freets, here their ids, none twice
ShownLists ==
  {<<>>} \cup {<<i>> : i \in PostIds}
         \cup {<<k[1], k[2]>> : k \in {p \in PostIds \X PostIds : p[1] # p[2]}}

\* $store.state as the page reads it; username "" is a visitor not signed in
Stores ==
  [username : {"", "al", Anonymous}, freets : ShownLists,
   onThisDayFreets : ShownLists, importantFreets : ShownLists]

\* one section of the page: v-if on the username, v-if / v-else on a list's
\* length, v-for over a list
Section(username, tested, listed) ==
  IF username = "" THEN [visible |-> FALSE, found |-> FALSE, listed |-> <<>>]
  ELSE IF Len(tested) # 0 THEN [visible |-> TRUE, found |-> TRUE, listed |-> listed]
  ELSE [visible |-> TRUE, found |-> FALSE, listed |-> <<>>]

ImportantSection(store) ==
  Section(store.username, store.importantFreets, store.importantFreets)

OnThisDaySection(store) ==
  Section(store.username, store.onThisDayFreets, store.freets)

\* the page is rendered from the store
FreetsPage(store) ==
  /\ call' = [store |-> store] @@ [NoCall EXCEPT !.op = "FreetsPage", !.name = store.username]
  /\ res' = [status |-> 200, error |-> "none",
             important |-> ImportantSection(store),
             onThisDay |-> OnThisDaySection(store)]
  /\ UNCHANGED <<users, freets, comments, session, ids, realName, pending>>

NextPage == \E store \in Stores : FreetsPage(store)

SpecPage == Init /\ [][NextPage]_vars

\* C19: for a signed-in user the on-this-day section shows freets exactly when
\* onThisDayFreets is not empty, and the freets it lists are those of
\* onThisDayFreets, not those of the general list.
C19_OnThisDaySection ==
  (call.op = "FreetsPage" /\ call.store.username # "") =>
    /\ res.onThisDay.found = (call.store.onThisDayFreets # <<>>)
    /\ res.onThisDay.listed = call.store.onThisDayFreets

----------------------------------------------------------------------------
(* The voter lists of a comment *)

NoDuplicate(list) == \A i, j \in 1..Len(list) : i # j => list[i] # list[j]

\* C20: in every state reached by upvoteComment calls made one after the
\* other, no username is in both voter lists of a comment or twice in one.
C20_VoterListsDisjoint ==
  \A i \in 1..Len(comments) :
    /\ NoDuplicate(comments[i].upvoters)
    /\ NoDuplicate(comments[i].downvoters)
    /\ \A k \in 1..Len(comments[i].upvoters) :
         ~Includes(comments[i].downvoters, comments[i].upvoters[k])

\* a user has just changed an upvote into a downvote and both lists hold a voter
C20_Witness ==
  /\ call.op = "upvoteComment"
  /\ call.branch = "upToDown"
  /\ \E i \in 1..Len(comments) :
       /\ Len(comments[i].upvoters) = 1
       /\ Len(comments[i].downvoters) = 1

----------------------------------------------------------------------------
(* Requests in flight: a call reads its document, then saves it *)

\* what save() writes: the whole document as the request holds it, or the
\* changed paths only, with or without the check of the document's version
SaveModes == {"document", "versioned", "unversioned"}
RaceNames == {"al", "bo"}
MaxSeen == 1
MaxVotes == 1

Downvoters(doc) == IF "downvoters" \in DOMAIN doc THEN doc.downvoters ELSE <<>>

IsPush(read, modified) ==
  /\ Len(modified) = Len(read) + 1
  /\ SubSeq(modified, 1, Len(read)) = read

\* a change of an array that is not a push is written as the whole array
HasSplice(read, modified) ==
  \/ (modified.upvoters # read.upvoters /\ ~IsPush(read.upvoters, modified.upvoters))
  \/ (Downvoters(modified) # Downvoters(read)
        /\ ~IsPush(Downvoters(read), Downvoters(modified)))

\* an array path after a save of the changed paths
SavedArray(read, modified, stored) ==
  IF modified = read THEN stored
  ELSE IF IsPush(read, modified) THEN Push(stored, modified[Len(modified)])
  ELSE modified

SavedNumber(read, modified, stored) == IF modified = read THEN stored ELSE modified

\* the save is refused: the array it replaces was changed since the read
VersionError(mode, read, modified, stale) ==
  mode = "versioned" /\ stale /\ HasSplice(read, modified)

\* the stored document after save() of `modified`, read as `read`
saveDoc(mode, read, modified, stored, stale) ==
  IF modified = read THEN stored
  ELSE IF mode = "document" THEN modified
  ELSE IF VersionError(mode, read, modified, stale) THEN stored
  ELSE LET paths == [stored EXCEPT
                       !.upvotes = SavedNumber(read.upvotes, modified.upvotes, @),
                       !.upvoters = SavedArray(read.upvoters, modified.upvoters, @)]
       IN  IF "downvoters" \in DOMAIN stored
             THEN [paths EXCEPT
                     !.downvoters = SavedArray(read.downvoters, modified.downvoters, @)]
             ELSE paths

InFlight(username) == \E p \in pending : p.name = username

\* the counter and the voter lists of the document are within the bound
Votable(doc) ==
  /\ doc.upvotes \in (0 - MaxVotes)..MaxVotes
  /\ Len(doc.upvoters) <= MaxVotes
  /\ Len(Downvoters(doc)) <= MaxVotes

Begin(op, username, react, doc, mode) ==
  [op |-> op, name |-> username, react |-> react, read |-> doc, mode |-> mode,
   stale |-> FALSE, seen |-> <<>>]

\* request q, in flight on the same document while request p saves
Overlap(q, p, written) ==
  IF q.op = p.op /\ q.read._id = p.read._id
    THEN [q EXCEPT !.stale = @ \/ written,
                   !.seen = Append(@, [name |-> p.name, react |-> p.react, read |-> p.read])]
    ELSE q

upvotePostRead(username, freetId, mode) ==
  /\ ~InFlight(username)
  /\ \A q \in pending : q.mode = mode
  /\ LET freet == FindOne(freets, freetId)
     IN  /\ freet # Null => Votable(freet)
         /\ pending' = IF freet # Null
                          THEN pending \cup {Begin("upvotePost", username, 1, freet, mode)}
                          ELSE pending
  /\ call' = [NoCall EXCEPT !.op = "upvotePostRead", !.name = username, !.doc = freetId]
  /\ UNCHANGED <<users, freets, comments, session, ids, res, realName>>

upvotePostSave(username) ==
  \E p \in pending :
    /\ p.op = "upvotePost"
    /\ p.name = username
    /\ \A q \in pending \ {p} : Len(q.seen) < MaxSeen
    /\ LET stored == FindOne(freets, p.read._id)
           modified == upvotePostDoc(p.read, username)
           written == modified # p.read /\ ~VersionError(p.mode, p.read, modified, p.stale)
       IN  /\ freets' = Replace(freets, saveDoc(p.mode, p.read, modified, stored, p.stale))
           /\ pending' = {Overlap(q, p, written) : q \in pending \ {p}}
           /\ call' = [read |-> p.read, seen |-> p.seen, mode |-> p.mode, written |-> written]
                        @@ [NoCall EXCEPT !.op = "upvotePostSave", !.name = username,
                              !.doc = p.read._id, !.react = 1,
                              !.branch = IF Includes(p.read.upvoters, username)
                                           THEN "undoUp" ELSE "newUp"]
    /\ UNCHANGED <<users, comments, session, ids, res, realName>>

upvoteCommentRead(username, commentId, react, mode) ==
  /\ ~InFlight(username)
  /\ \A q \in pending : q.mode = mode
  /\ LET comment == FindOne(comments, commentId)
     IN  /\ comment # Null => Votable(comment)
         /\ pending' = IF comment # Null
                          THEN pending \cup {Begin("upvoteComment", username, react, comment, mode)}
                          ELSE pending
  /\ call' = [NoCall EXCEPT !.op = "upvoteCommentRead", !.name = username,
                !.doc = commentId, !.react = react]
  /\ UNCHANGED <<users, freets, comments, session, ids, res, realName>>

upvoteCommentSave(username) ==
  \E p \in pending :
    /\ p.op = "upvoteComment"
    /\ p.name = username
    /\ \A q \in pending \ {p} : Len(q.seen) < MaxSeen
    /\ LET stored == FindOne(comments, p.read._id)
           modified == upvoteCommentDoc(p.read, username, p.react)
           written == modified # p.read /\ ~VersionError(p.mode, p.read, modified, p.stale)
       IN  /\ comments' = Replace(comments, saveDoc(p.mode, p.read, modified, stored, p.stale))
           /\ pending' = {Overlap(q, p, written) : q \in pending \ {p}}
           /\ call' = [read |-> p.read, seen |-> p.seen, mode |-> p.mode, written |-> written]
                        @@ [NoCall EXCEPT !.op = "upvoteCommentSave", !.name = username,
                              !.doc = p.read._id, !.react = p.react,
                              !.branch = ReactBranch(p.read, username, p.react)]
    /\ UNCHANGED <<users, freets, session, ids, res, realName>>

NextRace ==
  \/ UserAddOne("al", "pw")
  \/ \E a \in AuthorIds, c \in Contents : pending = {} /\ FreetAddOne(a, c)
  \/ \E a \in AuthorIds, c \in Contents, f \in FreetIds :
       pending = {} /\ CommentAddOne(a, c, f)
  \/ \E n \in RaceNames, f \in FreetIds, mode \in SaveModes : upvotePostRead(n, f, mode)
  \/ \E n \in RaceNames : upvotePostSave(n)
  \/ \E n \in RaceNames, c \in CommentIds, r \in Reacts, mode \in SaveModes :
       upvoteCommentRead(n, c, r, mode)
  \/ \E n \in RaceNames : upvoteCommentSave(n)

SpecRace == Init /\ [][NextRace]_vars

Counted(doc) == doc.upvotes = Len(doc.upvoters) - Len(Downvoters(doc))

\* what the request of `r.name` alone makes of the document it read
Alone(op, r) ==
  IF op = "upvotePostSave" THEN upvotePostDoc(r.read, r.name)
  ELSE upvoteCommentDoc(r.read, r.name, r.react)

\* the stored document holds `r.name` in the lists the request put it in
Reflects(doc, op, r) ==
  /\ Includes(doc.upvoters, r.name) = Includes(Alone(op, r).upvoters, r.name)
  /\ Includes(Downvoters(doc), r.name) = Includes(Downvoters(Alone(op, r)), r.name)

\* the call that has just saved was in flight, on the same document, while
\* exactly one request of another user saved: both had read before either saved
Interleaved ==
  /\ call.op \in {"upvotePostSave", "upvoteCommentSave"}
  /\ Len(call.seen) = 1
  /\ call.seen[1].name # call.name
  /\ Counted(call.read)
  /\ Counted(call.seen[1].read)

\* C21: when two requests of different users on the same comment (or freet)
\* have both read the document before either saved, then after both are done
\* the stored document reflects both reactions and its counter is still the
\* number of upvoters minus the number of downvoters.
C21_NoLostUpdate ==
  Interleaved =>
    LET doc == FindOne(IF call.op = "upvotePostSave" THEN freets ELSE comments, call.doc)
    IN  /\ Reflects(doc, call.op, call)
        /\ Reflects(doc, call.op, call.seen[1])
        /\ Counted(doc)

----------------------------------------------------------------------------
(* Queries by username and the freets written in anonymous mode *)

\* the dates at least a year after the first date
LaterYears == {t \in Times : getFullYear(t) > getFullYear(0)}

\* accounts that follow each other, switch anonymous mode on and off, post,
\* and query the freets by username
NextAnonymous ==
  \/ \E s \in Sessions, n \in MemberNames, p \in Passwords : PostUsers(s, n, p)
  \/ \E s \in Sessions, f \in MemberNames : PutFollowers(s, "al", f)
  \/ \E s \in Sessions : DeleteAnonymous(s)
  \/ \E a \in UserIds, c \in Contents : FreetAddOneAt(a, c, ids.freet)
  \/ \E n \in MemberNames : GetFreets(n)
  \/ \E n \in MemberNames, t \in LaterYears : findAllOnThisDate(n, t)
  \/ \E n \in MemberNames, filter \in UndefinedFilters : getFollowingFreets(n, filter)

SpecAnonymous == Init /\ [][NextAnonymous]_vars

InList(list, x) == \E i \in 1..Len(list) : list[i] = x

\* the freet is in the answer of the query just made
Returned(freet) ==
  \/ /\ call.op = "GetFreets"
     /\ call.name # ""
     /\ res.status = 200
     /\ InList(res.body, freet)
  \/ /\ call.op = "findAllOnThisDate"
     /\ res.status = 200
     /\ InList(res.body, freet)
  \/ /\ call.op = "getFollowingFreets"
     /\ \E i \in 1..Len(res.body) :
          IF res.body[i].kind = "freet" THEN res.body[i].freet = freet
          ELSE InList(res.body[i].freets, freet)

\* the usernames the query just made is keyed by: the author asked for, or
\* the names in the following list of the user whose feed is read
QueryKeys ==
  IF call.op = "getFollowingFreets"
    THEN LET user == findOneByUsername(call.name)
         IN  IF user = Null THEN {} ELSE {user.following[k] : k \in 1..Len(user.following)}
    ELSE {call.name}

\* C22: no query keyed by a user's real username (the author filter of
\* GET /api/freets, the on-this-day feed, the following feed of a follower)
\* returns a freet that the user created in anonymous mode, neither while
\* the user is in anonymous mode nor after the user has left it.
C22_AnonymousNotAttributable ==
  \A i \in 1..Len(freets) :
    (freets[i].anonymous /\ Returned(freets[i])) =>
      realName[freets[i].authorId] \notin QueryKeys

====
